---- MODULE Spec2Model ----
(***************************************************************************)
(* Model of the extraction decision pipeline of pdf-pipeline:              *)
(*   RulesEngine      (src/src/rules/extraction-rules.js)                  *)
(*   FieldExtractor   (src/unnamed/part_000)                               *)
(*   CostTracker      (src/unnamed/part_001, lines 456-629)                *)
(*   LLMProvider      (src/unnamed/part_001, lines 630-896)                *)
(* and of what stands around it:                                           *)
(*   PipelineService  (src/src/services/pipeline-service.js)               *)
(*   PortalAutomation (src/unnamed/part_001, lines 1-455)                  *)
(*   ReviewInterface  (src/src/ui/review-interface.js)                     *)
(*                                                                         *)
(* Units.  Confidences are integers in hundredths (0.6 is 60, the 0.05     *)
(* priority step is 5).  Costs are integers in units of 5e-8 dollars, so   *)
(* that the per-token prices of CostTracker.PRICING are whole numbers.     *)
(*                                                                         *)
(* A document is modelled by what the patterns of a rule find in it: for   *)
(* each field the sequence, in discovery order, of the accepted matches    *)
(* (cleaned value, offset, whether the matching pattern's source is longer *)
(* than 20 characters, and how many of the keywords 'email', 'phone',      *)
(* 'amount' stand in the 20-character window around the match).            *)
(***************************************************************************)
EXTENDS Integers, Sequences, FiniteSets, TLC

\* ------------------------------------------------------------------ bounds

\* Most matches one field of a document may hold.
MaxMatches == 6
\* Concurrent extraction invocations.
NumInv == 2
\* Calendar days the clock may reach.
MaxDay == 2
\* Largest token count a backend reports (prompt or completion).
MaxTokens == 1
\* Longest list of file paths handed to processBatch.
MaxPaths == 3

\* ------------------------------------------------------- small helpers

Min(a, b) == IF a < b THEN a ELSE b
Max(a, b) == IF a > b THEN a ELSE b

Range(s) == {s[i] : i \in 1..Len(s)}

\* Array.prototype.slice(0, n)
Slice(s, n) == SubSeq(s, 1, Min(n, Len(s)))

\* The subsequence of s at the positions in idx, in order.
RECURSIVE Pick(_, _, _)
Pick(s, idx, i) ==
  IF i > Len(s) THEN <<>>
  ELSE (IF i \in idx THEN <<s[i]>> ELSE <<>>) \o Pick(s, idx, i + 1)

\* ---------------------------------------------------------- the registry

\* EXTRACTION_RULES: the built-in field names, in key order.
BuiltinFields ==
  <<"email", "phone", "name", "date", "amount", "address", "invoiceNumber",
    "company">>

\* The priority of each built-in rule.
BuiltinPriority(f) ==
  CASE f = "email" -> 1
    [] f = "phone" -> 2
    [] f = "name" -> 3
    [] f = "date" -> 4
    [] f = "amount" -> 5
    [] f = "address" -> 6
    [] f = "invoiceNumber" -> 7
    [] f = "company" -> 8

\* Field names a caller registers through addCustomRule.
CustomFieldNames == {"customId"}
\* Priorities a custom rule may carry (any integer is accepted).
CustomPriorities == {-10, 12, 40}
NoRule == [registered |-> FALSE, priority |-> 0]
Rule(p) == [registered |-> TRUE, priority |-> p]

AllFieldNames == Range(BuiltinFields) \cup CustomFieldNames

\* ------------------------------------------------------------- strings

\* String.prototype.toLowerCase on the values of the model.
ToLowerCase(v) ==
  CASE v \in {"Acme Inc", "ACME INC", "acme inc"} -> "acme inc"
    [] v \in {"Beta LLC", "Beta Llc"} -> "beta llc"
    [] v = "Gamma Corp" -> "gamma corp"
    [] v = "Delta Ltd" -> "delta ltd"
    [] v = "Eps Inc" -> "eps inc"
    [] v = "Zeta Inc" -> "zeta inc"
    [] v = "Omega Inc" -> "omega inc"
    [] OTHER -> v

\* value.replace(/\w\S*/g, t => t[0].toUpperCase() + t.substr(1).toLowerCase())
TitleCase(v) ==
  CASE v \in {"Acme Inc", "ACME INC", "acme inc"} -> "Acme Inc"
    [] v \in {"Beta LLC", "Beta Llc"} -> "Beta Llc"
    [] OTHER -> v

\* parseFloat(value.replace(/[,$]/g, '')) rendered as `$${num.toFixed(2)}`;
\* a value that does not parse is passed through.
FormatAmount(v) ==
  CASE v \in {"100", "100.00", "$100.00", "$100"} -> "$100.00"
    [] v \in {"250", "$250.00"} -> "$250.00"
    [] OTHER -> v

\* new Date(value).toLocaleDateString('en-US') of the date strings that
\* occur: neither call throws, and a string that is not a date makes the
\* Invalid Date, which is rendered as "Invalid Date".
FormatDate(v) ==
  CASE v = "January 15, 2024" -> "1/15/2024"
    [] v = "1/15/2024" -> "1/15/2024"
    [] OTHER -> "Invalid Date"

\* The values a decoded JSON object can hold that are truthy and no strings:
\* the number 100, true.  They have no toLowerCase, replace or trim method.
NonStringValues == {"<number 100>", "<true>"}
\* The values that are falsy: null (or an absent key), "", 0.
FalsyValues == {"<null>", "", "<number 0>"}

\* FieldExtractor.postProcessFieldValue throws a TypeError: a string method
\* is called on a value that has none (the date case calls none).
postProcessFieldValueThrows(fieldName, value) ==
  value \in NonStringValues /\ fieldName # "date"

\* FieldExtractor.postProcessFieldValue
postProcessFieldValue(fieldName, value) ==
  IF value \in FalsyValues THEN value
  ELSE CASE fieldName = "email" -> ToLowerCase(value)
         [] fieldName = "amount" -> FormatAmount(value)
         [] fieldName \in {"name", "company"} -> TitleCase(value)
         [] fieldName = "date" -> FormatDate(value)
         [] OTHER -> value

\* ----------------------------------------------------------- RulesEngine

\* What a rule's patterns find in a document (see the header).
Match(v, pos, long, kw) ==
  [value |-> v, position |-> pos, long |-> long, kw |-> kw]

\* RulesEngine.calculateConfidence: 0.5, the pattern complexity bonus, 0.2
\* per context keyword, the priority bonus; capped at 1.0 (and only capped).
calculateConfidence(m, priority) ==
  Min(50 + (IF m.long THEN 10 ELSE 0) + 20 * m.kw + (10 - priority) * 5, 100)

Candidate(v, c, pos, src) ==
  [value |-> v, confidence |-> c, position |-> pos, source |-> src]

\* Insert x into the descending sequence s after every element whose
\* confidence is >= x's: Array.prototype.sort((a, b) => b.confidence -
\* a.confidence) is stable.
RECURSIVE InsertDesc(_, _)
InsertDesc(s, x) ==
  IF s = <<>> THEN <<x>>
  ELSE IF Head(s).confidence >= x.confidence
       THEN <<Head(s)>> \o InsertDesc(Tail(s), x)
       ELSE <<x>> \o s

RECURSIVE SortDesc(_)
SortDesc(s) ==
  IF s = <<>> THEN <<>>
  ELSE InsertDesc(SortDesc(SubSeq(s, 1, Len(s) - 1)), s[Len(s)])

\* RulesEngine.extractField: one candidate per accepted match, sorted.
extractField(matches, priority) ==
  SortDesc([i \in 1..Len(matches) |->
    Candidate(matches[i].value, calculateConfidence(matches[i], priority),
              matches[i].position, "rules")])

\* The Map of removeDuplicates after the matches of s: the keys in insertion
\* order, each with the match it holds.
RECURSIVE DedupMap(_)
DedupMap(s) ==
  IF s = <<>> THEN <<>>
  ELSE LET before == DedupMap(SubSeq(s, 1, Len(s) - 1))
           m == s[Len(s)]
           key == ToLowerCase(m.value)
           at == {i \in 1..Len(before) : ToLowerCase(before[i].value) = key}
       IN IF at = {} THEN Append(before, m)
          ELSE LET i == CHOOSE j \in at : TRUE
               IN IF before[i].confidence < m.confidence
                  THEN [before EXCEPT ![i] = m]
                  ELSE before

\* RulesEngine.removeDuplicates
removeDuplicates(matches) == SortDesc(DedupMap(matches))

\* The rules of one engine: the built-in registry and the customRules map
\* (custom: field name -> the registered rule, or NoRule).
HasCustom(custom, f) == f \in DOMAIN custom /\ custom[f].registered

\* specificFields.includes(f); NoSubset is the absent (null) option.
NoSubset == <<"*">>
Includes(specificFields, f) == f \in Range(specificFields)

\* The field names for which RulesEngine.extractFields runs a rule.
RuleFields(custom, specificFields) ==
  {f \in AllFieldNames :
     /\ specificFields = NoSubset \/ Includes(specificFields, f)
     /\ f \in Range(BuiltinFields) \/ HasCustom(custom, f)}

\* The rule applied last for f: a custom rule overwrites the built-in result.
EffectivePriority(custom, f) ==
  IF HasCustom(custom, f) THEN custom[f].priority ELSE BuiltinPriority(f)

\* RulesEngine.rankAndCleanResults on one field's matches.
rankAndClean(matches) == Slice(removeDuplicates(matches), 5)

\* RulesEngine.extractFields: field name -> ranked candidates; a field with
\* no accepted match has no entry (the empty sequence here).
RulesExtractFields(doc, custom, specificFields) ==
  [f \in AllFieldNames |->
     IF f \in RuleFields(custom, specificFields)
     THEN rankAndClean(extractField(doc[f], EffectivePriority(custom, f)))
     ELSE <<>>]

\* RulesEngine.getExtractionStats(...).totalFields
StatsTotalFields(custom) ==
  Len(BuiltinFields) + Cardinality({f \in DOMAIN custom : custom[f].registered})

\* -------------------------------------------------------- FieldExtractor

\* FieldExtractor.identifyMissingFields: the gap fields, in order.
RECURSIVE MissingIn(_, _, _)
MissingIn(available, rulesResults, confidenceThreshold) ==
  IF available = <<>> THEN <<>>
  ELSE LET f == Head(available)
           matches == IF f \in DOMAIN rulesResults THEN rulesResults[f] ELSE <<>>
           missing == \/ matches = <<>>
                      \/ matches[1].confidence < confidenceThreshold
       IN (IF missing THEN <<f>> ELSE <<>>)
          \o MissingIn(Tail(available), rulesResults, confidenceThreshold)

identifyMissingFields(rulesResults, confidenceThreshold, specificFields) ==
  MissingIn(IF specificFields = NoSubset THEN BuiltinFields ELSE specificFields,
            rulesResults, confidenceThreshold)

\* mergeField with the sort left out.
mergeFieldUnsorted(existing, llmMatches) ==
  IF llmMatches # <<>>
  THEN Slice(existing \o llmMatches, 3)
  ELSE existing

\* FieldExtractor.mergeResults, for one field of the gap set.
mergeField(existing, llmMatches) ==
  IF llmMatches # <<>>
  THEN Slice(SortDesc(existing \o llmMatches), 3)
  ELSE existing

\* mergeResults that starts from an empty object instead of a copy of the
\* rules results: only the gap fields survive.
mergeResultsGapsOnly(rulesResults, llmResults, missingFields) ==
  [f \in DOMAIN rulesResults |->
     IF f \in Range(missingFields)
     THEN mergeField(rulesResults[f], llmResults[f])
     ELSE <<>>]

\* mergeResults with the cut to three candidates applied to every field
\* instead of the merged gap fields.
mergeResultsTruncateAll(rulesResults, llmResults, missingFields) ==
  [f \in DOMAIN rulesResults |->
     IF f \in Range(missingFields) /\ llmResults[f] # <<>>
     THEN Slice(SortDesc(rulesResults[f] \o llmResults[f]), 3)
     ELSE Slice(rulesResults[f], 3)]

\* FieldExtractor.mergeResults
mergeResults(rulesResults, llmResults, missingFields) ==
  [f \in DOMAIN rulesResults |->
     IF f \in Range(missingFields)
     THEN mergeField(rulesResults[f], llmResults[f])
     ELSE rulesResults[f]]

\* FieldExtractor.postProcess on one field: clamp and normalise each match.
postProcessField(fieldName, matches) ==
  [i \in 1..Len(matches) |->
     [matches[i] EXCEPT !.confidence = Min(Max(@, 0), 100),
                        !.value = postProcessFieldValue(fieldName, @)]]

postProcess(extractedFields) ==
  [f \in DOMAIN extractedFields |-> postProcessField(f, extractedFields[f])]

\* FieldExtractor.postProcess throws: one of the values makes
\* postProcessFieldValue throw.
postProcessThrows(extractedFields) ==
  \E f \in DOMAIN extractedFields :
    \E i \in 1..Len(extractedFields[f]) :
      postProcessFieldValueThrows(f, extractedFields[f][i].value)

\* The elements of the sequence s that are in the set S, in order.
RECURSIVE FilterIn(_, _)
FilterIn(s, S) ==
  IF s = <<>> THEN <<>>
  ELSE (IF Head(s) \in S THEN <<Head(s)>> ELSE <<>>) \o FilterIn(Tail(s), S)

\* Object.entries order of the rules results: the built-in rules in registry
\* order, then the custom rules.
RegistryOrder == BuiltinFields \o <<"customId">>

\* Object.entries(extractedFields) of the final result: the keys of the rules
\* results (a field without an accepted match has no key), then the keys the
\* merge added, in gap order; postProcess skips a key with an empty list.
KeyOrder(rulesResults, missingFields, final) ==
  FilterIn(RegistryOrder, {f \in DOMAIN final :
                             rulesResults[f] # <<>> /\ final[f] # <<>>})
  \o FilterIn(missingFields, {f \in DOMAIN final :
                                rulesResults[f] = <<>> /\ final[f] # <<>>})

SeverityRank(severity) ==
  CASE severity = "high" -> 3
    [] severity = "medium" -> 2
    [] severity = "low" -> 1

\* recommendations.sort((a, b) => order[b.severity] - order[a.severity]),
\* a stable sort.
RECURSIVE InsertBySeverity(_, _)
InsertBySeverity(s, x) ==
  IF s = <<>> THEN <<x>>
  ELSE IF SeverityRank(Head(s).severity) >= SeverityRank(x.severity)
       THEN <<Head(s)>> \o InsertBySeverity(Tail(s), x)
       ELSE <<x>> \o s

RECURSIVE SortBySeverity(_)
SortBySeverity(s) ==
  IF s = <<>> THEN <<>>
  ELSE InsertBySeverity(SortBySeverity(SubSeq(s, 1, Len(s) - 1)), s[Len(s)])

\* The recommendation getReviewRecommendations pushes for one entry of
\* extractedFields, if any.
Recommend(fieldName, matches) ==
  IF matches = <<>>
  THEN <<[field |-> fieldName, severity |-> "high"]>>
  ELSE IF matches[1].confidence < 50
  THEN <<[field |-> fieldName, severity |-> "medium"]>>
  ELSE IF Len(matches) > 1 /\ matches[2].confidence > 60
  THEN <<[field |-> fieldName, severity |-> "low"]>>
  ELSE <<>>

RECURSIVE RecommendAll(_, _)
RecommendAll(keys, extractedFields) ==
  IF keys = <<>> THEN <<>>
  ELSE Recommend(Head(keys), extractedFields[Head(keys)])
       \o RecommendAll(Tail(keys), extractedFields)

\* FieldExtractor.getReviewRecommendations over the entries `keys` of
\* extractedFields.
getReviewRecommendations(keys, extractedFields) ==
  SortBySeverity(RecommendAll(keys, extractedFields))

\* ----------------------------------------------------------- CostTracker

\* JavaScript values that reach canMakeRequest's cap parameters.
Num(n) == [t |-> "number", v |-> n]
Null == [t |-> "null", v |-> 0]
Undefined == [t |-> "undefined", v |-> 0]
NaN == [t |-> "NaN", v |-> 0]

\* ToBoolean
Truthy(x) == x.t = "number" /\ x.v # 0
\* ToNumber
ToNumber(x) ==
  CASE x.t = "number" -> x
    [] x.t = "null" -> Num(0)
    [] OTHER -> NaN
\* a + b and a > b on such values: NaN spreads, and compares false.
JsAdd(a, b) ==
  IF ToNumber(a).t = "NaN" \/ ToNumber(b).t = "NaN" THEN NaN
  ELSE Num(ToNumber(a).v + ToNumber(b).v)
JsGt(a, b) ==
  /\ ToNumber(a).t # "NaN"
  /\ ToNumber(b).t # "NaN"
  /\ ToNumber(a).v > ToNumber(b).v

\* CostTracker.PRICING per token, in units of 5e-8 dollars; a model that is
\* not in the table is priced as 'ollama'.
Pricing(model) ==
  CASE model = "gpt-4o-mini" -> [input |-> 3, output |-> 12]
    [] model = "gpt-3.5-turbo" -> [input |-> 10, output |-> 30]
    [] OTHER -> [input |-> 0, output |-> 0]

\* CostTracker.calculateCost
calculateCost(model, inputTokens, outputTokens) ==
  inputTokens * Pricing(model).input + outputTokens * Pricing(model).output

Sessions == {"s1", "s2"}
Days == 1..MaxDay

\* A session with no entry in the costs map.
NoLedger == [totalCost |-> 0, requests |-> <<>>, present |-> FALSE]

\* trackCosts that stores the request's cost as the session total instead of
\* adding it.
trackCostsLastWins(costs, sessionId, model, inputTokens, outputTokens, today) ==
  LET cost == calculateCost(model, inputTokens, outputTokens)
  IN [costs EXCEPT ![sessionId] =
        [totalCost |-> cost,
         requests |-> Append(@.requests,
                        [day |-> today, model |-> model,
                         inputTokens |-> inputTokens,
                         outputTokens |-> outputTokens, cost |-> cost]),
         present |-> TRUE]]

\* trackCosts that records only into a ledger entry that exists: a request
\* whose session has no entry (none yet, or deleted by a reset) is dropped.
trackCostsIfPresent(costs, sessionId, model, inputTokens, outputTokens, today) ==
  LET cost == calculateCost(model, inputTokens, outputTokens)
  IN IF ~costs[sessionId].present
     THEN costs
     ELSE [costs EXCEPT ![sessionId] =
             [totalCost |-> @.totalCost + cost,
              requests |-> Append(@.requests,
                             [day |-> today, model |-> model,
                              inputTokens |-> inputTokens,
                              outputTokens |-> outputTokens, cost |-> cost]),
              present |-> TRUE]]

\* trackDaily that stores the request's cost as the day's total instead of
\* adding it.
trackDailyLastWins(dailyTotals, model, inputTokens, outputTokens, today) ==
  [dailyTotals EXCEPT ![today] =
     calculateCost(model, inputTokens, outputTokens)]

\* CostTracker.trackRequest: the three maps after the call, the clock
\* reading `today`.
trackCosts(costs, sessionId, model, inputTokens, outputTokens, today) ==
  LET cost == calculateCost(model, inputTokens, outputTokens)
      session == costs[sessionId]
  IN [costs EXCEPT ![sessionId] =
        [totalCost |-> session.totalCost + cost,
         requests |-> Append(session.requests,
                        [day |-> today, model |-> model,
                         inputTokens |-> inputTokens,
                         outputTokens |-> outputTokens, cost |-> cost]),
         present |-> TRUE]]

trackDaily(dailyTotals, model, inputTokens, outputTokens, today) ==
  [dailyTotals EXCEPT ![today] =
     @ + calculateCost(model, inputTokens, outputTokens)]

trackCounts(requestCounts, sessionId) ==
  [requestCounts EXCEPT ![sessionId] = @ + 1]

\* canMakeRequest with the daily test on the total alone (the request's own
\* share forgotten).
canMakeRequestTotalOnly(costs, dailyTotals, today, sessionId, maxCostPerRequest, maxDailyCost) ==
  IF Truthy(maxDailyCost) /\ JsGt(Num(dailyTotals[today]), maxDailyCost)
  THEN [allowed |-> FALSE,
        reason |-> "Request would exceed daily cost limit"]
  ELSE [allowed |-> TRUE, reason |-> ""]

\* CostTracker.canMakeRequest
canMakeRequest(costs, dailyTotals, today, sessionId, maxCostPerRequest, maxDailyCost) ==
  LET dailyTotal == dailyTotals[today]
  IN IF /\ Truthy(maxCostPerRequest)
        /\ JsGt(maxCostPerRequest, Num(0))
        /\ JsGt(maxCostPerRequest, maxCostPerRequest)
     THEN [allowed |-> FALSE,
           reason |-> "Request would exceed per-request cost limit"]
     ELSE IF /\ Truthy(maxDailyCost)
             /\ JsGt(JsAdd(Num(dailyTotal), maxCostPerRequest), maxDailyCost)
     THEN [allowed |-> FALSE,
           reason |-> "Request would exceed daily cost limit"]
     ELSE [allowed |-> TRUE, reason |-> ""]

\* The argument of reset: a session id, the empty string among them, or
\* none (null).
NoSessionArg == "<none>"
ResetArgs == Sessions \cup {"", NoSessionArg}
\* `if (sessionId)`
TruthyId(sessionId) == sessionId # NoSessionArg /\ sessionId # ""

\* CostTracker.reset: the three maps after the call.
resetCosts(costs, sessionId) ==
  [s \in DOMAIN costs |->
     IF TruthyId(sessionId) /\ s # sessionId THEN costs[s] ELSE NoLedger]

\* A reset that leaves the request counts alone.
resetCountsKeepsCounts(requestCounts, sessionId) ==
  requestCounts

resetCounts(requestCounts, sessionId) ==
  [s \in DOMAIN requestCounts |->
     IF TruthyId(sessionId) /\ s # sessionId THEN requestCounts[s] ELSE 0]

resetDaily(dailyTotals, sessionId) ==
  IF TruthyId(sessionId) THEN dailyTotals
  ELSE [d \in DOMAIN dailyTotals |-> 0]

\* What a query of the CostTracker returns.
Reply(op, allowed, totalCost, requestCount) ==
  [op |-> op, allowed |-> allowed, totalCost |-> totalCost,
   requestCount |-> requestCount]
NoReply == Reply("none", FALSE, 0, 0)

\* CostTracker.getSessionStats
sessionStats(costs, sessionId) ==
  Reply("getSessionStats", FALSE, costs[sessionId].totalCost,
        Len(costs[sessionId].requests))

\* CostTracker.getTotalRequestsForDate
getTotalRequestsForDate(costs, date) ==
  LET on(s) == {k \in 1..Len(costs[s].requests) : costs[s].requests[k].day = date}
      RECURSIVE Sum(_)
      Sum(S) == IF S = {} THEN 0
                ELSE LET s == CHOOSE x \in S : TRUE
                     IN Cardinality(on(s)) + Sum(S \ {s})
  IN Sum(DOMAIN costs)

\* CostTracker.getDailyStats
dailyStats(costs, dailyTotals, date) ==
  Reply("getDailyStats", FALSE, dailyTotals[date],
        getTotalRequestsForDate(costs, date))

\* ----------------------------------------------------------- LLMProvider

\* A backend answer: the token counts it reports, whether the payload has
\* the text field the provider reads (response.data.response,
\* choices[0].message.content), whether that text holds a decodable JSON
\* object, and the decoded object: field name -> the value under that key
\* (NullValue for null or an absent key).
NullValue == "<null>"
Response(inTok, outTok, wellFormed, decodable, json) ==
  [inputTokens |-> inTok, outputTokens |-> outTok, wellFormed |-> wellFormed,
   decodable |-> decodable, json |-> json]

NoCandidates == [f \in AllFieldNames |-> <<>>]

\* A parser that makes a candidate of the raw text when it cannot decode it.
parseExtractionResponseRawText(resp, missingFields) ==
  [f \in AllFieldNames |->
     IF f \in Range(missingFields) /\ (~resp.wellFormed \/ ~resp.decodable)
     THEN <<Candidate("<raw text>", 70, 0, "llm")>>
     ELSE IF f \in Range(missingFields) /\ resp.json[f] \notin FalsyValues
     THEN <<Candidate(resp.json[f], 70, 0, "llm")>>
     ELSE <<>>]

\* LLMProvider.parseExtractionResponse: a text that cannot be trimmed or
\* decoded gives the empty result; else one candidate of confidence 0.7 per
\* requested field with a truthy value, whatever the type of the value.
parseExtractionResponse(resp, missingFields) ==
  IF ~resp.wellFormed \/ ~resp.decodable THEN NoCandidates
  ELSE [f \in AllFieldNames |->
          IF f \in Range(missingFields) /\ resp.json[f] \notin FalsyValues
          THEN <<Candidate(resp.json[f], 70, 0, "llm")>>
          ELSE <<>>]

\* The field list LLMProvider.buildExtractionPrompt writes at the head of the
\* one prompt of a call: every field it was given, in order.
fieldsToExtract(missingFields) ==
  [k \in 1..Len(missingFields) |-> missingFields[k]]

\* requestData.model of callOpenAI; callOllama tracks this.model.
TrackedModel(provider, model) ==
  IF provider = "openai"
  THEN (IF model \in {"gpt-4o-mini", "gpt-3.5-turbo"} THEN model
        ELSE "gpt-4o-mini")
  ELSE model

\* The message of the error callOllama / callOpenAI throw for a transport
\* failure of the given kind.
BackendErrorMessage(provider, kind) ==
  IF provider = "ollama"
  THEN (IF kind = "ECONNREFUSED"
        THEN "Ollama server is not running. Please start Ollama and try again."
        ELSE "Ollama API error")
  ELSE (CASE kind = "401" -> "Invalid OpenAI API key"
          [] kind = "429" -> "OpenAI API rate limit exceeded"
          [] OTHER -> "OpenAI API error")

\* ------------------------------------------------------------ the inputs

\* The matches the company rule (all three patterns longer than 20
\* characters) can find, in discovery order.
CompanyPool ==
  <<Match("Acme Inc", 10, TRUE, 0), Match("ACME INC", 40, TRUE, 1),
    Match("Beta LLC", 70, TRUE, 0), Match("Gamma Corp", 100, TRUE, 0),
    Match("Delta Ltd", 130, TRUE, 0), Match("Eps Inc", 160, TRUE, 1),
    Match("Zeta Inc", 190, TRUE, 0)>>

\* The matches the amount rule can find.
AmountPool ==
  <<Match("100", 220, TRUE, 0), Match("100.00", 250, TRUE, 1),
    Match("250", 280, TRUE, 0)>>

\* The matches a custom rule for customId (a short pattern) can find.
CustomPool ==
  <<Match("12345", 300, FALSE, 0), Match("67890", 320, FALSE, 1)>>

SubSeqs(pool) ==
  {Pick(pool, idx, 1) :
     idx \in {x \in SUBSET (1..Len(pool)) : Cardinality(x) <= MaxMatches}}

Doc(company, amount, customId) ==
  [f \in AllFieldNames |->
     CASE f = "company" -> company
       [] f = "amount" -> amount
       [] f = "customId" -> customId
       [] OTHER -> <<>>]

EmptyDoc == Doc(<<>>, <<>>, <<>>)

\* Documents: any selection of company matches beside at most one amount
\* match, or any selection of amount and customId matches beside at most one
\* company match.
Docs ==
  {Doc(c, a, <<>>) : c \in SubSeqs(CompanyPool),
                     a \in {<<>>, <<AmountPool[1]>>}}
  \cup {Doc(c, a, k) : c \in {<<>>, <<CompanyPool[1]>>},
                       a \in SubSeqs(AmountPool), k \in SubSeqs(CustomPool)}

Thresholds == {60, 80}
FieldSubsets == {NoSubset, <<"company", "amount", "customId">>}

\* What the backend may answer for the fields of the model.
Json(company, amount, customId) ==
  [f \in AllFieldNames |->
     CASE f = "company" -> company
       [] f = "amount" -> amount
       [] f = "customId" -> customId
       [] OTHER -> NullValue]

Jsons ==
  {Json(c, a, k) : c \in {NullValue, "ACME INC", "Omega Inc"},
                   a \in {NullValue, "$100"}, k \in {NullValue, "12345"}}

TokenCounts == 0..MaxTokens
FailKinds == {"ECONNREFUSED", "ETIMEDOUT", "401", "429"}

\* The configurations (config/index.js): provider, model and the
\* per-request cost cap MAX_LLM_COST_PER_REQUEST, 20 units being 1e-6 dollars
\* and 200000 units the default 0.01 dollars.
PerRequestCaps == {20, 200000}
Configs ==
  {[provider |-> pm[1], model |-> pm[2], maxCostPerRequest |-> c] :
     pm \in {<<"ollama", "llama3.2:3b">>, <<"openai", "gpt-3.5-turbo">>,
             <<"openai", "llama3.2:3b">>},
     c \in PerRequestCaps}

\* Daily caps a caller may hand to canMakeRequest.
DailyCaps == {25, 40}

\* ------------------------------------------------------------- the state

VARIABLES
  config,         \* the configuration the LLMProvider was built with
  customRules,    \* RulesEngine.customRules
  costs,          \* CostTracker.costs: session id -> ledger
  dailyTotals,    \* CostTracker.dailyTotals: day -> total cost
  requestCounts,  \* CostTracker.requestCounts: session id -> count
  today,          \* the calendar day the clock shows
  inv,            \* the extraction invocations
  reply,          \* what the last query of the CostTracker returned
  batch,          \* the PipelineService.processBatch call
  reviewInterface \* the ReviewInterface session store and its handlers

vars ==
  <<config, customRules, costs, dailyTotals, requestCounts, today, inv, reply,
    batch, reviewInterface>>

Invs == 1..NumInv
NoError == ""

\* The processed document handed to extract: its text (what the rules find
\* in it), or no text at all.
ProcessedDocument(doc) == [hasText |-> TRUE, text |-> doc]
NoTextDocument == [hasText |-> FALSE, text |-> EmptyDoc]

\* extractionResult: the fields, the metadata and the summary's
\* recommendedReview.
Result(fields, method, used, error, review) ==
  [extractedFields |-> fields, extractionMethod |-> method,
   llmFallbackUsed |-> used, llmError |-> error, recommendedReview |-> review]

\* What processDocument returns: {success: true, sessionId,
\* ...extractionResult, processing} or {success: false, sessionId, error,
\* timestamp}.
NoReturn ==
  [returned |-> FALSE, success |-> FALSE, sessionId |-> "", error |-> "",
   hasExtractedFields |-> FALSE, hasSummary |-> FALSE]
PipelineSuccess(sessionId) ==
  [returned |-> TRUE, success |-> TRUE, sessionId |-> sessionId, error |-> "",
   hasExtractedFields |-> TRUE, hasSummary |-> TRUE]
PipelineFailure(sessionId, error) ==
  [returned |-> TRUE, success |-> FALSE, sessionId |-> sessionId,
   error |-> error, hasExtractedFields |-> FALSE, hasSummary |-> FALSE]

NoJson == Json(NullValue, NullValue, NullValue)

\* FieldExtractor.generateExtractionSummary: the fields that have a value,
\* their number, and the number of fields requested, which is read from the
\* statistics the rules engine computed after the rules stage.
\* extractionRate is fieldsExtracted / totalFieldsRequested.
generateExtractionSummary(extractedFields, rulesStatsTotalFields) ==
  [fieldsExtracted |->
     Cardinality({f \in AllFieldNames : Len(extractedFields[f]) > 0}),
   totalFieldsRequested |-> rulesStatsTotalFields]

\* One invocation.  pc: idle, awaiting (suspended at the backend call), done
\* (extract returned a result), failed (processDocument returned
\* success=false), threw (an exception reached the caller).  The fields from
\* via on record what the invocation was called with and what happened to
\* it: the entry point, the field subset, the custom rules at the time of
\* the rules stage, the output of the merge, the decoded backend answer, the
\* tracked cost and day, whether the ledger was reset while the backend call
\* was outstanding, processDocument's return value, the summary, whether the
\* backend's text held a decodable object, the field lists of the prompts
\* sent, and how the cost pre-check of extractFields ended.
IdleInv ==
  [pc |-> "idle", sessionId |-> "s1", enableLLMFallback |-> FALSE,
   confidenceThreshold |-> 0, rulesResults |-> NoCandidates,
   missingFields |-> <<>>, llmResults |-> NoCandidates,
   llm |-> "none", events |-> <<>>, capOk |-> {},
   result |-> Result(NoCandidates, "", FALSE, NoError, <<>>),
   via |-> "extract", specificFields |-> NoSubset,
   registry |-> [f \in CustomFieldNames |-> NoRule],
   merged |-> NoCandidates, response |-> NoJson,
   tracked |-> FALSE, trackedCost |-> 0, trackedDay |-> 0,
   resetSeen |-> FALSE, pipeline |-> NoReturn,
   summary |-> [fieldsExtracted |-> 0, totalFieldsRequested |-> 0],
   decoded |-> FALSE, prompts |-> <<>>, preCheck |-> "none"]

\* An error leaves FieldExtractor.extract (its outer catch rethrows it):
\* a direct caller gets the exception, processDocument catches it and
\* returns the failure object.
Failed(r, error) ==
  IF r.via = "processDocument"
  THEN [r EXCEPT !.pc = "failed",
                 !.pipeline = PipelineFailure(r.sessionId, error)]
  ELSE [r EXCEPT !.pc = "threw"]

\* The end of FieldExtractor.extract (phase 4): post-process, summarise and
\* return, or throw when the post-processing throws; processDocument wraps
\* the result.
\* llm is how the call of LLMProvider.extractFields ended, if one was made.
Finished(r, llm, fields, method, used, error) ==
  LET final == postProcess(fields)
      review == getReviewRecommendations(
                  KeyOrder(r.rulesResults, r.missingFields, final), final)
  IN IF postProcessThrows(fields)
     THEN Failed([r EXCEPT !.llm = llm, !.merged = fields],
                 "Field extraction failed")
     ELSE
     [r EXCEPT !.pc = "done", !.llm = llm, !.merged = fields,
               !.result = Result(final, method, used, error, review),
               !.summary = generateExtractionSummary(
                             final, StatsTotalFields(r.registry)),
               !.pipeline = IF r.via = "processDocument"
                            THEN PipelineSuccess(r.sessionId) ELSE @]

\* The condition of phase 3: the fallback is enabled and there are gaps.
needsFallbackIgnoringSwitch(enableLLMFallback, missingFields) ==
  missingFields # <<>>
needsFallback(enableLLMFallback, missingFields) ==
  enableLLMFallback /\ missingFields # <<>>

\* FieldExtractor.extract up to its first suspension: phases 1 and 2, then
\* LLMProvider.extractFields up to the transport call of callOllama or
\* callOpenAI (where the invocation waits for the backend), or the whole of
\* extract when no backend call is made.  r0 is the invocation's record at
\* the call.
ExtractStep(r0, processedDocument, enableLLMFallback, confidenceThreshold, specificFields) ==
  LET sessionId == r0.sessionId
      rulesResults ==
        RulesExtractFields(processedDocument.text, customRules, specificFields)
      missingFields ==
        identifyMissingFields(rulesResults, confidenceThreshold,
                              specificFields)
      costCheck ==
        canMakeRequest(costs, dailyTotals, today, sessionId,
                       Num(config.maxCostPerRequest), Null)
      r == [r0 EXCEPT
              !.enableLLMFallback = enableLLMFallback,
              !.confidenceThreshold = confidenceThreshold,
              !.specificFields = specificFields,
              !.registry = customRules,
              !.rulesResults = rulesResults,
              !.missingFields = missingFields]
      checked ==
        [r EXCEPT
           !.events = Append(@, "canMakeRequest"),
           !.preCheck = IF costCheck.allowed THEN "passed" ELSE "denied",
           !.capOk = {cap \in DailyCaps :
                        canMakeRequest(costs, dailyTotals, today, sessionId,
                                       Num(config.maxCostPerRequest),
                                       Num(cap)).allowed}]
  IN IF ~processedDocument.hasText
     THEN Failed(r0, "Field extraction failed")
     ELSE IF ~needsFallback(enableLLMFallback, missingFields)
     THEN Finished(r, "none", rulesResults, "rules", FALSE, NoError)
     ELSE IF ~costCheck.allowed
     THEN Finished(checked, "threw", rulesResults, "rules", FALSE,
                   "Cost limit exceeded: " \o costCheck.reason)
     ELSE IF config.provider \notin {"ollama", "openai"}
     THEN Finished(checked, "threw", rulesResults, "rules", FALSE,
                   "Unsupported LLM provider")
     ELSE [checked EXCEPT !.pc = "awaiting", !.llm = "pending",
                          !.events = Append(@, "post"),
                          !.prompts = Append(@, fieldsToExtract(missingFields))]

\* A direct call of FieldExtractor.extract.
Extract(i, processedDocument, sessionId, enableLLMFallback, confidenceThreshold, specificFields) ==
  /\ inv[i].pc = "idle"
  /\ inv' = [inv EXCEPT ![i] =
       ExtractStep([inv[i] EXCEPT !.sessionId = sessionId],
                   processedDocument, enableLLMFallback, confidenceThreshold,
                   specificFields)]
  /\ UNCHANGED <<config, customRules, costs, dailyTotals, requestCounts, today, reply, batch, reviewInterface>>

\* What becomes of the file handed to processDocument: its extension has no
\* processor, its validation fails, its processing fails, or it is
\* processed.
FileKinds == {"unsupported", "invalid", "unreadable", "processed"}
FileError(file) ==
  CASE file = "unsupported" -> "Could not process file: Unsupported file extension"
    [] file = "invalid" -> "Could not process file: validation failed"
    [] file = "unreadable" -> "Email processing failed"

\* The options argument of processDocument: an object (or none, which the
\* parameter default replaces by {}), or null, which the default does not
\* replace.
OptionsKinds == {"object", "null"}

\* PipelineService.processDocument up to its first suspension inside
\* extract, or to its return.
processDocument(i, file, options, processedDocument, sessionId, enableLLMFallback, confidenceThreshold, specificFields) ==
  /\ inv[i].pc = "idle"
  /\ LET r0 == [inv[i] EXCEPT !.via = "processDocument",
                              !.sessionId = sessionId]
     IN inv' = [inv EXCEPT ![i] =
          IF options = "null"
          THEN [r0 EXCEPT !.pc = "threw"]
          ELSE IF file # "processed"
          THEN Failed(r0, FileError(file))
          ELSE ExtractStep(r0, processedDocument, enableLLMFallback,
                           confidenceThreshold, specificFields)]
  /\ UNCHANGED <<config, customRules, costs, dailyTotals, requestCounts, today, reply, batch, reviewInterface>>

\* The backend answers: the rest of callOllama / callOpenAI (trackRequest,
\* parseExtractionResponse) and of FieldExtractor.extract (merge, post-process).
\* callOpenAI reads choices[0].message.content after it has tracked the
\* request; a payload without it makes the call fail there.
BackendResponds(i, resp) ==
  /\ inv[i].pc = "awaiting"
  /\ LET r == inv[i]
         model == TrackedModel(config.provider, config.model)
         llmResults == parseExtractionResponse(resp, r.missingFields)
         tracked ==
           [r EXCEPT !.events = Append(@, "trackRequest"),
                     !.response = resp.json,
                     !.decoded = resp.wellFormed /\ resp.decodable,
                     !.tracked = TRUE,
                     !.trackedCost = calculateCost(model, resp.inputTokens,
                                                   resp.outputTokens),
                     !.trackedDay = today]
     IN /\ costs' = trackCosts(costs, r.sessionId, model, resp.inputTokens,
                               resp.outputTokens, today)
        /\ dailyTotals' = trackDaily(dailyTotals, model, resp.inputTokens,
                                     resp.outputTokens, today)
        /\ requestCounts' = trackCounts(requestCounts, r.sessionId)
        /\ inv' = [inv EXCEPT ![i] =
             IF config.provider = "openai" /\ ~resp.wellFormed
             THEN Finished(tracked, "threw", r.rulesResults, "rules", FALSE,
                           "OpenAI API error")
             ELSE Finished([tracked EXCEPT !.llmResults = llmResults], "returned",
                           mergeResults(r.rulesResults, llmResults,
                                        r.missingFields),
                           "rules+llm", TRUE, NoError)]
  /\ UNCHANGED <<config, customRules, today, reply, batch, reviewInterface>>

\* BackendFails without the catch of extract's phase 3: the error reaches the
\* outer handler, which rethrows it to the caller.
BackendFailsUncaught(i, kind) ==
  /\ inv[i].pc = "awaiting"
  /\ inv' = [inv EXCEPT ![i].pc = "threw", ![i].llm = "threw"]
  /\ UNCHANGED <<config, customRules, costs, dailyTotals, requestCounts, today, reply, batch, reviewInterface>>

\* The transport call fails (connection refused, timeout, 401, 429): the
\* provider rethrows and extract keeps the rules-only results.
BackendFails(i, kind) ==
  /\ inv[i].pc = "awaiting"
  /\ inv' = [inv EXCEPT ![i] =
       Finished(inv[i], "threw", inv[i].rulesResults, "rules", FALSE,
                BackendErrorMessage(config.provider, kind))]
  /\ UNCHANGED <<config, customRules, costs, dailyTotals, requestCounts, today, reply, batch, reviewInterface>>

\* RulesEngine.addCustomRule
addCustomRule(fieldName, priority) ==
  /\ customRules' = [customRules EXCEPT ![fieldName] = Rule(priority)]
  /\ UNCHANGED <<config, costs, dailyTotals, requestCounts, today, inv, reply, batch, reviewInterface>>

\* Midnight passes.
NextDay ==
  /\ today < MaxDay
  /\ today' = today + 1
  /\ UNCHANGED <<config, customRules, costs, dailyTotals, requestCounts, inv, reply, batch, reviewInterface>>

\* CostTracker.reset.  An invocation whose backend call is outstanding notes
\* that its session's ledger was cleared meanwhile.
reset(sessionId) ==
  /\ costs' = resetCosts(costs, sessionId)
  /\ requestCounts' = resetCounts(requestCounts, sessionId)
  /\ dailyTotals' = resetDaily(dailyTotals, sessionId)
  /\ inv' = [i \in Invs |->
       IF /\ inv[i].pc = "awaiting"
          /\ ~TruthyId(sessionId) \/ inv[i].sessionId = sessionId
       THEN [inv[i] EXCEPT !.resetSeen = TRUE]
       ELSE inv[i]]
  /\ UNCHANGED <<config, customRules, today, reply, batch, reviewInterface>>

\* CostTracker.getSessionStats
getSessionStats(sessionId) ==
  /\ reply' = sessionStats(costs, sessionId)
  /\ UNCHANGED <<config, customRules, costs, dailyTotals, requestCounts, today, inv, batch, reviewInterface>>

\* CostTracker.getDailyStats
getDailyStats(date) ==
  /\ reply' = dailyStats(costs, dailyTotals, date)
  /\ UNCHANGED <<config, customRules, costs, dailyTotals, requestCounts, today, inv, batch, reviewInterface>>

\* A caller asks CostTracker.canMakeRequest.
CanMakeRequestCall(sessionId, maxCostPerRequest, maxDailyCost) ==
  /\ reply' =
       LET check == canMakeRequest(costs, dailyTotals, today, sessionId,
                                   maxCostPerRequest, maxDailyCost)
       IN Reply("canMakeRequest", check.allowed,
                IF check.allowed THEN costs[sessionId].totalCost ELSE 0, 0)
  /\ UNCHANGED <<config, customRules, costs, dailyTotals, requestCounts, today, inv, batch, reviewInterface>>

\* ------------------------------------------ PipelineService.processBatch

\* The loop index i and the concurrency option are JavaScript numbers.  The
\* model counts both in halves (3 stands for 1.5), file paths and batch sizes
\* in whole numbers.
Concurrencies == {-2, 0, 2, 3, 4}
FilePathLists == {[k \in 1..n |-> k] : n \in 0..MaxPaths}

\* ToIntegerOrInfinity of a number given in halves: truncation towards zero.
ToIntegerOrInfinity(h) == IF h >= 0 THEN h \div 2 ELSE -((-h) \div 2)

\* The relative index Array.prototype.slice makes of an argument.
RelativeIndex(k, len) == IF k < 0 THEN Max(len + k, 0) ELSE Min(k, len)

\* A window that also takes the element at its end.
ArraySliceInclusive(arr, start, end) ==
  LET from == RelativeIndex(ToIntegerOrInfinity(start), Len(arr))
      to == RelativeIndex(ToIntegerOrInfinity(end), Len(arr))
  IN IF to < from THEN <<>> ELSE SubSeq(arr, from + 1, Min(to + 1, Len(arr)))

\* filePaths.slice(i, i + concurrency)
ArraySlice(arr, start, end) ==
  LET from == RelativeIndex(ToIntegerOrInfinity(start), Len(arr))
      to == RelativeIndex(ToIntegerOrInfinity(end), Len(arr))
  IN IF to <= from THEN <<>> ELSE SubSeq(arr, from + 1, to)

\* One promise of batchPromises, and the entry it resolves to.  The
\* processDocument call resolves with success=true ("success"), resolves with
\* success=false ("failure"), or rejects ("rejected": the .catch handler of
\* the batch makes {success: false, filePath, error} of it).
PendingDocument(filePath) ==
  [filePath |-> filePath, settled |-> FALSE, outcome |-> "", success |-> FALSE]
SettledDocument(filePath, outcome) ==
  [filePath |-> filePath, settled |-> TRUE, outcome |-> outcome,
   success |-> outcome = "success"]

\* What processBatch returns.
NoBatchReturn == [success |-> FALSE, total |-> 0, successful |-> 0, failed |-> 0]
BatchReturn(results) ==
  LET successful == Cardinality({k \in 1..Len(results) : results[k].success})
  IN [success |-> TRUE, total |-> Len(results), successful |-> successful,
      failed |-> Len(results) - successful]

\* The processBatch call.  pc: idle, awaiting (suspended at Promise.all),
\* returned.  batchPromises are the promises of the current batch;
\* maxInFlight is the largest number of processDocument calls that were
\* outstanding at the same time.
IdleBatch ==
  [pc |-> "idle", filePaths |-> <<>>, concurrency |-> 0, i |-> 0,
   batchPromises |-> <<>>, results |-> <<>>, maxInFlight |-> 0,
   returned |-> NoBatchReturn]

\* The head of the for loop with the index at b.i: the next batch is cut and
\* all its processDocument calls are started, or the loop ends and
\* processBatch returns.
LoopHead(b) ==
  IF b.i < 2 * Len(b.filePaths)
  THEN LET window == ArraySlice(b.filePaths, b.i, b.i + b.concurrency)
       IN [b EXCEPT !.pc = "awaiting",
                    !.batchPromises =
                       [k \in 1..Len(window) |-> PendingDocument(window[k])],
                    !.maxInFlight = Max(@, Len(window))]
  ELSE [b EXCEPT !.pc = "returned", !.batchPromises = <<>>,
                 !.returned = BatchReturn(b.results)]

\* PipelineService.processBatch is called.
processBatch(filePaths, concurrency) ==
  /\ batch.pc = "idle"
  /\ batch' = LoopHead([IdleBatch EXCEPT !.filePaths = filePaths,
                                         !.concurrency = concurrency])
  /\ UNCHANGED <<config, customRules, costs, dailyTotals, requestCounts, today, inv, reply, reviewInterface>>

\* One processDocument call of the current batch ends.
DocumentSettles(k, outcome) ==
  /\ batch.pc = "awaiting"
  /\ k \in 1..Len(batch.batchPromises)
  /\ ~batch.batchPromises[k].settled
  /\ batch' = [batch EXCEPT !.batchPromises[k] =
                 SettledDocument(@.filePath, outcome)]
  /\ UNCHANGED <<config, customRules, costs, dailyTotals, requestCounts, today, inv, reply, reviewInterface>>

\* Promise.all resolves: the batch's entries are appended, the index
\* advances and the loop goes round.  Below -(MaxPaths + 1) every window of
\* a path list is empty and the loop condition holds, so all indices at or
\* below it behave alike: the model keeps the index there.
BatchContinues ==
  /\ batch.pc = "awaiting"
  /\ \A k \in 1..Len(batch.batchPromises) : batch.batchPromises[k].settled
  /\ batch' = LoopHead([batch EXCEPT
                 !.results = @ \o batch.batchPromises,
                 !.i = Max(@ + batch.concurrency, -2 * (MaxPaths + 1))])
  /\ UNCHANGED <<config, customRules, costs, dailyTotals, requestCounts, today, inv, reply, reviewInterface>>

\* ------------------------------------------------------ portal submission

\* The JavaScript values the portal code handles: a string, an array of
\* candidates, a candidate object (text holds its value property), and
\* undefined, which also stands for a key an object does not have.
JsString(t) == [kind |-> "string", text |-> t, items |-> <<>>]
JsArray(items) == [kind |-> "array", text |-> "", items |-> items]
JsObject(c) == [kind |-> "object", text |-> c.value, items |-> <<>>]
JsUndefined == [kind |-> "undefined", text |-> "", items |-> <<>>]

\* !x
Falsy(x) == x.kind = "undefined" \/ (x.kind = "string" /\ x.text = "")
\* x.length === 0 and x.length > 0 (the strings here have one character or
\* more unless they are empty; an object has no length)
LengthIsZero(x) ==
  \/ x.kind = "array" /\ Len(x.items) = 0
  \/ x.kind = "string" /\ x.text = ""
LengthIsPositive(x) ==
  \/ x.kind = "array" /\ Len(x.items) > 0
  \/ x.kind = "string" /\ x.text # ""
\* The first character of the strings that occur.
FirstChar(t) ==
  CASE t = "Acme Corp" -> "A"
    [] t = "Beta Ltd" -> "B"
    [] t = "100.00" -> "1"
    [] t = "K-7" -> "K"
    [] OTHER -> ""
\* x[0]
ElementZero(x) ==
  CASE x.kind = "array" /\ Len(x.items) > 0 -> JsObject(x.items[1])
    [] x.kind = "string" /\ x.text # "" -> JsString(FirstChar(x.text))
    [] OTHER -> JsUndefined
\* x.value
ValueProperty(x) == IF x.kind = "object" THEN JsString(x.text) ELSE JsUndefined

PortalFieldNames == {"company", "amount", "customId"}

\* PipelineService.formatFieldsForPortal
formatFieldsForPortal(extractedFields) ==
  [fieldName \in PortalFieldNames |->
     LET matches == extractedFields[fieldName]
     IN IF ~Falsy(matches) /\ LengthIsPositive(matches)
        THEN ValueProperty(ElementZero(matches))
        ELSE JsUndefined]

\* The field names PortalAutomation.fillForm has selectors for.
MappedFields ==
  {"email", "phone", "name", "company", "amount", "date", "invoiceNumber",
   "address"}

NotFilled == [filled |-> FALSE, value |-> JsUndefined]
Filled(value) == [filled |-> TRUE, value |-> value]

\* PortalAutomation.fillForm(...).filledFields.  formHas are the fields the
\* page has an element for; fillAccepts says whether element.fill accepts a
\* value that is not a string or throws (the loop then tries the next
\* selector and ends without filling).
fillForm(extractedFields, dryRun, formHas, fillAccepts) ==
  [fieldName \in PortalFieldNames |->
     LET matches == extractedFields[fieldName]
         bestMatch == ElementZero(matches)
         value == ValueProperty(bestMatch)
     IN IF Falsy(matches) \/ LengthIsZero(matches) THEN NotFilled
        ELSE IF fieldName \notin MappedFields THEN NotFilled
        ELSE IF fieldName \notin formHas THEN NotFilled
        ELSE IF ~dryRun /\ value.kind # "string" /\ ~fillAccepts
        THEN NotFilled
        ELSE Filled(value)]

\* PipelineService.submitToPortal(...).formData: the fields are flattened and
\* handed to PortalAutomation.submitExtractedData, which fills the form with
\* them; a submission that fails before the form is filled has no formData.
submitToPortalFormData(fields, dryRun, portalWorks, formHas, fillAccepts) ==
  IF portalWorks
  THEN fillForm(formatFieldsForPortal(fields), dryRun, formHas, fillAccepts)
  ELSE [fieldName \in PortalFieldNames |-> NotFilled]

\* The fields a review page sends: ranked candidate lists.
PortalInputs ==
  {[fieldName \in PortalFieldNames |->
      CASE fieldName = "company" -> JsArray(company)
        [] fieldName = "amount" -> JsArray(amount)
        [] OTHER -> JsArray(customId)] :
     company \in {<<>>, <<Candidate("Acme Corp", 90, 0, "rules")>>,
                  <<Candidate("Acme Corp", 90, 0, "rules"),
                    Candidate("Beta Ltd", 70, 0, "rules")>>},
     amount \in {<<>>, <<Candidate("100.00", 80, 0, "rules")>>},
     customId \in {<<>>, <<Candidate("K-7", 60, 0, "rules")>>}}

\* ------------------------------------------------------- ReviewInterface

ReviewIds == {"r1", "r2"}

\* ReviewInterface.sessions: session id -> session object, and the one
\* portal submission the model follows (pc: idle, awaiting, done).  removed
\* records that the session was deleted or expired and not uploaded again
\* since.
NoSession == [present |-> FALSE, status |-> ""]
Session(status) == [present |-> TRUE, status |-> status]
NoSubmission ==
  [pc |-> "idle", sessionId |-> "r1",
   fields |-> [fieldName \in PortalFieldNames |-> JsArray(<<>>)],
   dryRun |-> FALSE, success |-> FALSE,
   formData |-> [fieldName \in PortalFieldNames |-> NotFilled]]
EmptyReview ==
  [sessions |-> [id \in ReviewIds |-> NoSession],
   submission |-> NoSubmission,
   removed |-> [id \in ReviewIds |-> FALSE]]

\* POST /api/upload: when processDocument has returned, the session is
\* stored under its id.
handleUpload(sessionId) ==
  /\ reviewInterface' = [reviewInterface EXCEPT
       !.sessions[sessionId] = Session("review_pending"),
       !.removed[sessionId] = FALSE]
  /\ reviewInterface' # reviewInterface
  /\ UNCHANGED <<config, customRules, costs, dailyTotals, requestCounts, today, inv, reply, batch>>

\* PUT /api/sessions/:id/fields (a session that is absent gets 404).
updateFields(sessionId) ==
  /\ reviewInterface.sessions[sessionId].present
  /\ reviewInterface.sessions[sessionId].status # "user_modified"
  /\ reviewInterface' = [reviewInterface EXCEPT
       !.sessions[sessionId] = Session("user_modified")]
  /\ UNCHANGED <<config, customRules, costs, dailyTotals, requestCounts, today, inv, reply, batch>>

\* POST /api/sessions/:id/submit up to the await of
\* pipelineService.submitToPortal (a session that is absent gets 404).
ReviewSubmitToPortal(sessionId, fields, dryRun) ==
  /\ reviewInterface.submission.pc # "awaiting"
  /\ reviewInterface.sessions[sessionId].present
  /\ reviewInterface' = [reviewInterface EXCEPT
       !.submission = [NoSubmission EXCEPT
          !.pc = "awaiting", !.sessionId = sessionId, !.fields = fields,
          !.dryRun = dryRun]]
  /\ UNCHANGED <<config, customRules, costs, dailyTotals, requestCounts, today, inv, reply, batch>>

\* pipelineService.submitToPortal returns and the handler goes on: it sets
\* the status of the session object it holds and stores the object under
\* the session id.
PortalSubmissionReturns(portalWorks, submitWorks, formHas, fillAccepts) ==
  /\ reviewInterface.submission.pc = "awaiting"
  /\ LET s == reviewInterface.submission
         success == portalWorks /\ (s.dryRun \/ submitWorks)
     IN reviewInterface' = [reviewInterface EXCEPT
          !.submission = [s EXCEPT
             !.pc = "done", !.success = success,
             !.formData = submitToPortalFormData(s.fields, s.dryRun,
                            portalWorks, formHas, fillAccepts)],
          !.sessions[s.sessionId] =
             Session(IF success THEN "submitted" ELSE "submission_failed")]
  /\ UNCHANGED <<config, customRules, costs, dailyTotals, requestCounts, today, inv, reply, batch>>

\* DELETE /api/sessions/:id (a session that is absent gets 404).
deleteSession(sessionId) ==
  /\ reviewInterface.sessions[sessionId].present
  /\ reviewInterface' = [reviewInterface EXCEPT !.sessions[sessionId] = NoSession,
                              !.removed[sessionId] = TRUE]
  /\ UNCHANGED <<config, customRules, costs, dailyTotals, requestCounts, today, inv, reply, batch>>

\* One run of the hourly cleanup: expired are the sessions created before
\* the cutoff.
SessionCleanup(expired) ==
  /\ expired # {}
  /\ \A id \in expired : reviewInterface.sessions[id].present
  /\ reviewInterface' = [reviewInterface EXCEPT
       !.sessions = [id \in ReviewIds |->
                       IF id \in expired THEN NoSession ELSE @[id]],
       !.removed = [id \in ReviewIds |-> IF id \in expired THEN TRUE ELSE @[id]]]
  /\ UNCHANGED <<config, customRules, costs, dailyTotals, requestCounts, today, inv, reply, batch>>

\* ---------------------------------------------------- the specifications

Init ==
  /\ config \in Configs
  /\ customRules = [f \in CustomFieldNames |-> NoRule]
  /\ costs = [s \in Sessions |-> NoLedger]
  /\ dailyTotals = [d \in Days |-> 0]
  /\ requestCounts = [s \in Sessions |-> 0]
  /\ today = 1
  /\ inv = [i \in Invs |-> IdleInv]
  /\ reply = NoReply
  /\ batch = IdleBatch
  /\ reviewInterface = EmptyReview

\* Invocation ids are labels: they are handed out in order.
IsNextInv(i) == \A j \in 1..(i - 1) : inv[j].pc # "idle"

\* Backend answers of the ledger specification: every token count, one text.
LedgerResponses ==
  {Response(a, b, TRUE, FALSE, NoJson) : a \in TokenCounts, b \in TokenCounts}

\* Concurrent extraction invocations of documents without matches, sharing
\* one CostTracker.
Next ==
  \/ \E i \in Invs, s \in Sessions :
       /\ IsNextInv(i)
       /\ Extract(i, ProcessedDocument(EmptyDoc), s, TRUE, 60, NoSubset)
  \/ \E i \in Invs, resp \in LedgerResponses : BackendResponds(i, resp)
  \/ \E i \in Invs : BackendFails(i, "ECONNREFUSED")
  \/ NextDay

Spec == Init /\ [][Next]_vars

\* The ledger specification with resets and queries: one configuration (a
\* priced remote model), the callers of the CostTracker beside the
\* invocations.
InitLedger ==
  /\ Init
  /\ config.provider = "openai"
  /\ config.model = "gpt-3.5-turbo"
  /\ config.maxCostPerRequest = 200000

NextLedger ==
  \/ Next
  \/ \E sessionId \in ResetArgs : reset(sessionId)
  \/ \E s \in Sessions : getSessionStats(s)
  \/ getDailyStats(today)
  \/ \E s \in Sessions, cap \in DailyCaps :
       CanMakeRequestCall(s, Num(20), Num(cap))

SpecLedger == InitLedger /\ [][NextLedger]_vars

\* Backend answers of the extraction specification: every text, one token
\* count.
ExtractResponses ==
  {Response(1, 1, TRUE, TRUE, j) : j \in Jsons}
  \cup {Response(1, 1, w, FALSE, NoJson) : w \in BOOLEAN}

InitExtract ==
  /\ Init
  /\ config.maxCostPerRequest = 20

\* The documents handed to extract.
ExtractDocs == {ProcessedDocument(doc) : doc \in Docs} \cup {NoTextDocument}

\* The documents handed to processDocument.
PipelineDocs ==
  {NoTextDocument}
  \cup {ProcessedDocument(Doc(c, <<>>, <<>>)) :
          c \in {<<>>, <<CompanyPool[1]>>, <<CompanyPool[1], CompanyPool[3]>>}}

\* One extraction invocation, through extract over every document of Docs or
\* through processDocument, the custom rules being registered before it
\* starts (extract reads the registry in its rules stage only).
NextExtract ==
  \/ \E f \in CustomFieldNames, p \in CustomPriorities :
       inv[1].pc = "idle" /\ addCustomRule(f, p)
  \/ \E pd \in ExtractDocs, e \in BOOLEAN, t \in Thresholds,
        sub \in FieldSubsets :
       Extract(1, pd, "s1", e, t, sub)
  \/ \E file \in FileKinds, options \in OptionsKinds, pd \in PipelineDocs,
        e \in BOOLEAN, sub \in FieldSubsets :
       processDocument(1, file, options, pd, "s1", e, 60, sub)
  \/ \E resp \in ExtractResponses : BackendResponds(1, resp)
  \/ \E kind \in FailKinds : BackendFails(1, kind)

SpecExtract == InitExtract /\ [][NextExtract]_vars

\* The fallback specification: one invocation of a document with gaps, with
\* or without the fallback, and every kind of answer of the backend.
\* The answers hold values of every JSON type, and dates.
FallbackResponses ==
  {Response(1, 1, TRUE, TRUE,
            [Json(c, a, NullValue) EXCEPT !["date"] = d]) :
     c \in {NullValue, "Omega Inc", "<number 100>"},
     a \in {NullValue, "$100", "<true>", "<number 0>"},
     d \in {NullValue, "January 15, 2024", "next Friday"}}
  \cup {Response(1, 1, w, FALSE, NoJson) : w \in BOOLEAN}
FallbackDocs ==
  {ProcessedDocument(Doc(c, a, <<>>)) :
     c \in {<<>>, <<CompanyPool[1]>>, <<CompanyPool[1], CompanyPool[3]>>},
     a \in {<<>>, <<AmountPool[1]>>}}

NextFallback ==
  \/ \E pd \in FallbackDocs, enable \in BOOLEAN, th \in Thresholds :
       Extract(1, pd, "s1", enable, th, NoSubset)
  \/ \E pd \in FallbackDocs, th \in Thresholds :
       processDocument(1, "processed", "object", pd, "s1", TRUE, th, NoSubset)
  \/ \E resp \in FallbackResponses : BackendResponds(1, resp)
  \/ \E kind \in FailKinds : BackendFails(1, kind)

SpecFallback == InitExtract /\ [][NextFallback]_vars

\* The batch specification: one call of processBatch, with every path list
\* and concurrency value, and its documents ending in any order.
NextBatch ==
  \/ \E filePaths \in FilePathLists, concurrency \in Concurrencies :
       processBatch(filePaths, concurrency)
  \/ \E k \in 1..MaxPaths, outcome \in {"success", "failure", "rejected"} :
       DocumentSettles(k, outcome)
  \/ BatchContinues

SpecBatch == InitLedger /\ [][NextBatch]_vars

\* The same under the scheduling of the event loop: a processDocument call
\* that can end does end, and a continuation that is ready runs.
SpecBatchFair == SpecBatch /\ WF_vars(NextBatch)

\* The review specification: the handlers of the ReviewInterface in every
\* interleaving the event loop allows.
NextReview ==
  \/ \E sessionId \in ReviewIds : handleUpload(sessionId)
  \/ \E sessionId \in ReviewIds : updateFields(sessionId)
  \/ \E sessionId \in ReviewIds, fields \in PortalInputs, dryRun \in BOOLEAN :
       ReviewSubmitToPortal(sessionId, fields, dryRun)
  \/ \E portalWorks \in BOOLEAN, submitWorks \in BOOLEAN,
        formHas \in {{"company", "amount"}, {"company"}},
        fillAccepts \in BOOLEAN :
       PortalSubmissionReturns(portalWorks, submitWorks, formHas, fillAccepts)
  \/ \E sessionId \in ReviewIds : deleteSession(sessionId)
  \/ \E expired \in SUBSET ReviewIds : SessionCleanup(expired)

SpecReview == InitLedger /\ [][NextReview]_vars

\* ------------------------------------------------------------ the claims

FieldsOf(results) == {f \in DOMAIN results : results[f] # <<>>}

\* A candidate as FieldExtractor.postProcess leaves it.
PostProcessed(fieldName, c) ==
  [c EXCEPT !.confidence = Min(Max(@, 0), 100),
            !.value = postProcessFieldValue(fieldName, @)]

\* C1: whenever the call of LLMProvider.extractFields throws (a denied
\* pre-check, an unsupported provider, a transport failure, a payload the
\* provider cannot read), extract still returns: the fields are the
\* post-processed rules results, the method stays 'rules', llmFallbackUsed
\* stays false and the error message is in the metadata.
C1_FallbackFailureKeepsRules ==
  \A i \in Invs :
    inv[i].llm = "threw" =>
      /\ inv[i].pc = "done"
      /\ inv[i].result.extractedFields = postProcess(inv[i].rulesResults)
      /\ inv[i].result.extractionMethod = "rules"
      /\ ~inv[i].result.llmFallbackUsed
      /\ inv[i].result.llmError # NoError

\* C1 witness: a transport failure (401) left an invocation with rules
\* candidates, and an unreadable payload left another after its request was
\* tracked.
C1_Witness ==
  /\ inv[1].pc = "done"
  /\ inv[1].llm = "threw"
  /\ FieldsOf(inv[1].rulesResults) # {}
  /\ inv[1].result.llmError \in {"Invalid OpenAI API key", "OpenAI API error"}

\* The cap values a caller may pass as maxCostPerRequest: numbers, null and
\* a missing argument.
PerRequestArgs == {Num(0), Num(1), Num(20), Num(200000), Null, Undefined}
PositiveArgs == {p \in PerRequestArgs : p.t = "number" /\ p.v > 0}

\* C2 as stated: once the day's total has reached the daily cap, every
\* canMakeRequest is denied, for every session id and every per-request cap
\* value, 0 and unset included.
C2_DeniedAtCapForEveryArg ==
  \A cap \in DailyCaps, s \in Sessions, p \in PerRequestArgs :
    dailyTotals[today] >= cap =>
      ~canMakeRequest(costs, dailyTotals, today, s, p, Num(cap)).allowed

\* C2 amended: once the day's total has reached the daily cap, every
\* canMakeRequest with a positive per-request cap is denied, for every
\* session id.
C2_DeniedAtCapForPositiveArg ==
  \A cap \in DailyCaps, s \in Sessions, p \in PositiveArgs :
    dailyTotals[today] >= cap =>
      ~canMakeRequest(costs, dailyTotals, today, s, p, Num(cap)).allowed

\* C2 witness: tracked requests have brought the day's total exactly to a
\* daily cap.
C2_Witness ==
  /\ dailyTotals[today] \in DailyCaps
  /\ \E s \in Sessions : costs[s].requests # <<>>

\* C3: if every backend call was made after canMakeRequest(sessionId,
\* perRequestCap, dailyCap) had allowed it, and every recorded cost is at
\* most perRequestCap, no day's total exceeds dailyCap.
C3_SpendBounded ==
  \A cap \in DailyCaps :
    (/\ \A i \in Invs : inv[i].llm # "none" => cap \in inv[i].capOk
     /\ \A s \in Sessions : \A k \in 1..Len(costs[s].requests) :
          costs[s].requests[k].cost <= config.maxCostPerRequest)
    => \A d \in Days : dailyTotals[d] <= cap

\* C4: no request recorded in a session ledger costs more than the
\* configured per-request cap.
C4_PerRequestCapEnforced ==
  \A s \in Sessions : \A k \in 1..Len(costs[s].requests) :
    costs[s].requests[k].cost <= config.maxCostPerRequest

\* The invocations that have returned a result.
Returned == {i \in Invs : inv[i].pc = "done"}
\* The invocations that have run the rules stage.
Ruled == {i \in Invs : inv[i].pc # "idle"}

\* C6: every rules candidate at or above the threshold is, post-processed,
\* still among its field's candidates in the result (fallback merged,
\* failed or not called).
C6_MergeKeepsConfidentCandidates ==
  \A i \in Returned : \A f \in AllFieldNames :
    \A k \in 1..Len(inv[i].rulesResults[f]) :
      inv[i].rulesResults[f][k].confidence >= inv[i].confidenceThreshold =>
        PostProcessed(f, inv[i].rulesResults[f][k])
          \in Range(inv[i].result.extractedFields[f])

\* C6 witness: a merge has cut a rules candidate out of a gap field, beside
\* a field whose candidate is at or above the threshold.
C6_Witness ==
  \E i \in Returned :
    /\ inv[i].result.llmFallbackUsed
    /\ \E f \in Range(inv[i].missingFields) :
         /\ inv[i].llmResults[f] # <<>>
         /\ Len(inv[i].rulesResults[f]) >= 3
    /\ \E g \in AllFieldNames :
         /\ inv[i].rulesResults[g] # <<>>
         /\ inv[i].rulesResults[g][1].confidence >= inv[i].confidenceThreshold

InRange(results) ==
  \A f \in DOMAIN results : \A k \in 1..Len(results[f]) :
    results[f][k].confidence >= 0 /\ results[f][k].confidence <= 100

\* C7: every candidate RulesEngine.extractFields returns, and every
\* candidate of extract's result, has a confidence from 0 to 1.
C7_ConfidenceInUnitInterval ==
  /\ \A i \in Ruled : InRange(inv[i].rulesResults)
  /\ \A i \in Returned : InRange(inv[i].result.extractedFields)

Sorted(results) ==
  \A f \in DOMAIN results : \A k \in 1..(Len(results[f]) - 1) :
    results[f][k].confidence >= results[f][k + 1].confidence

\* C8: the candidates of every field are in non-increasing order of
\* confidence, in the output of RulesEngine.extractFields and in extract's
\* result.
C8_SortedByConfidence ==
  /\ \A i \in Ruled : Sorted(inv[i].rulesResults)
  /\ \A i \in Returned : Sorted(inv[i].result.extractedFields)

\* C8 witness: a merged gap field holds fallback and rules candidates of
\* three different confidences.
C8_Witness ==
  \E i \in Returned : \E f \in Range(inv[i].missingFields) :
    LET final == inv[i].result.extractedFields[f]
    IN /\ inv[i].llmResults[f] # <<>>
       /\ Len(final) = 3
       /\ final[1].confidence > final[2].confidence
       /\ final[2].confidence > final[3].confidence
       /\ final[1].source = "llm"

\* C9: no field of extract's result holds two candidates whose values are
\* equal up to case.
C9_NoDuplicateValues ==
  \A i \in Returned : \A f \in AllFieldNames :
    LET final == inv[i].result.extractedFields[f]
    IN \A k \in 1..Len(final) : \A m \in 1..Len(final) :
         k # m => ToLowerCase(final[k].value) # ToLowerCase(final[m].value)

\* C10: the rules stage returns at most 5 candidates per field, and after a
\* merge every gap field has at most 3.
C10_CandidateListsBounded ==
  /\ \A i \in Ruled : \A f \in AllFieldNames : Len(inv[i].rulesResults[f]) <= 5
  /\ \A i \in Returned :
       inv[i].result.llmFallbackUsed =>
         \A f \in Range(inv[i].missingFields) :
           Len(inv[i].result.extractedFields[f]) <= 3

\* The invocations that have run gap detection.
Detected == {i \in Invs : inv[i].pc \in {"awaiting", "done"}}

\* The fields an invocation requests: each name of its explicit subset, or
\* with no subset every field of the rule registry, the custom rules
\* registered at the time included.
Requested(r) ==
  IF r.specificFields = NoSubset
  THEN Range(BuiltinFields)
       \cup {f \in CustomFieldNames : r.registry[f].registered}
  ELSE Range(r.specificFields)

IsGap(r, f) ==
  \/ r.rulesResults[f] = <<>>
  \/ r.rulesResults[f][1].confidence < r.confidenceThreshold

\* C11: with fallback enabled, every requested field without a rules
\* candidate is in the gap list handed to the fallback backend.
C11_ZeroCandidateFieldsAreGaps ==
  \A i \in Detected :
    inv[i].enableLLMFallback =>
      \A f \in Requested(inv[i]) :
        inv[i].rulesResults[f] = <<>> => f \in Range(inv[i].missingFields)

\* C12: a requested field is in the gap set exactly when it has no rules
\* candidate or its best candidate's confidence is strictly below the
\* threshold.
C12_GapDetectionExact ==
  \A i \in Detected : \A f \in Requested(inv[i]) :
    f \in Range(inv[i].missingFields) <=> IsGap(inv[i], f)

\* C13: after a merge, every field outside the gap set has exactly its
\* rules-stage candidates, whatever the backend answered for it.
C13_MergeLeavesNonGapFields ==
  \A i \in Returned :
    inv[i].llm = "returned" =>
      \A f \in AllFieldNames \ Range(inv[i].missingFields) :
        inv[i].merged[f] = inv[i].rulesResults[f]

\* C13 witness: a merge has run while the backend's answer held a value for
\* a field that has rules candidates and is not a gap.
C13_Witness ==
  \E i \in Returned : \E f \in AllFieldNames \ Range(inv[i].missingFields) :
    /\ inv[i].llm = "returned"
    /\ inv[i].rulesResults[f] # <<>>
    /\ inv[i].response[f] # NullValue
    /\ \E g \in Range(inv[i].missingFields) : inv[i].llmResults[g] # <<>>

\* The sum of the tracked costs of the invocations in S.
RECURSIVE TrackedSum(_)
TrackedSum(S) ==
  IF S = {} THEN 0
  ELSE LET i == CHOOSE x \in S : TRUE
       IN inv[i].trackedCost + TrackedSum(S \ {i})

\* C14: each session's totalCost is the sum of the costs of that session's
\* completed backend calls, and each day's total the sum of the costs of the
\* calls completed that day, over every order of completion (at every
\* moment, so also once all invocations are complete).
C14_IncrementsExactlyOnce ==
  /\ \A s \in Sessions :
       costs[s].totalCost =
         TrackedSum({i \in Invs : inv[i].tracked /\ inv[i].sessionId = s})
  /\ \A d \in Days :
       dailyTotals[d] =
         TrackedSum({i \in Invs : inv[i].tracked /\ inv[i].trackedDay = d})

\* C14 witness: all invocations are complete, two of them from different
\* sessions, each with a cost.
C14_Witness ==
  /\ \A i \in Invs : inv[i].pc = "done"
  /\ \E i, j \in Invs :
       /\ inv[i].sessionId # inv[j].sessionId
       /\ inv[i].tracked /\ inv[i].trackedCost > 0
       /\ inv[j].tracked /\ inv[j].trackedCost > 0

\* C15: when a backend call completes after its session's ledger was reset
\* while it was outstanding, its cost is added to the ledger as it is then:
\* the session total and the day's total are each at least that cost.
C15_CostSurvivesReset ==
  [][\A i \in Invs :
       (inv[i].pc = "awaiting" /\ inv[i].resetSeen /\ inv'[i].tracked) =>
         /\ costs'[inv[i].sessionId].totalCost =
              costs[inv[i].sessionId].totalCost + inv'[i].trackedCost
         /\ dailyTotals'[today] = dailyTotals[today] + inv'[i].trackedCost
         /\ costs'[inv[i].sessionId].totalCost >= inv'[i].trackedCost
         /\ dailyTotals'[today] >= inv'[i].trackedCost]_vars

\* C15 witness: a call with a cost has completed after a reset that found
\* it outstanding.
C15_Witness ==
  \E i \in Invs :
    /\ inv[i].pc = "done"
    /\ inv[i].resetSeen
    /\ inv[i].tracked
    /\ inv[i].trackedCost > 0

\* C16: reset with a session id, the empty string included, leaves every
\* other session's ledger and request count and all daily totals unchanged.
C16_ResetClearsOnlyItsSession ==
  [][\A sessionId \in Sessions \cup {""} :
       reset(sessionId) =>
         /\ \A s \in Sessions \ {sessionId} :
              /\ costs'[s] = costs[s]
              /\ requestCounts'[s] = requestCounts[s]
         /\ dailyTotals' = dailyTotals]_vars

\* C17: between two states with no reset in between, no session's totalCost
\* and no day's total decreases.
C17_TotalsMonotone ==
  [][\/ \E sessionId \in ResetArgs : reset(sessionId)
     \/ /\ \A s \in Sessions : costs'[s].totalCost >= costs[s].totalCost
        /\ \A d \in Days : dailyTotals'[d] >= dailyTotals[d]]_vars

\* C17 witness: a session's ledger holds two requests, the later one cheaper
\* than the earlier, and a query has just read it.
C17_Witness ==
  \E s \in Sessions :
    /\ Len(costs[s].requests) >= 2
    /\ costs[s].requests[2].cost < costs[s].requests[1].cost
    /\ costs[s].requests[2].cost > 0
    /\ reply = sessionStats(costs, s)

\* The names of an invocation's field subset for which no rule is registered.
Unknown(r) ==
  IF r.specificFields = NoSubset THEN {}
  ELSE {f \in Range(r.specificFields) :
          f \notin Range(BuiltinFields) /\ ~HasCustom(r.registry, f)}

\* C18: an invocation whose field subset names a field without a rule fails
\* as a whole: it ends with an error (thrown, or success=false from
\* processDocument) and makes no backend call.
C18_UnknownFieldNameIsFatal ==
  \A i \in Invs :
    Unknown(inv[i]) # {} =>
      /\ inv[i].pc \in {"threw", "failed"}
      /\ "post" \notin Range(inv[i].events)

\* C19: processDocument never throws, and what it returns on a failure is
\* success=false with the session id and an error message, without
\* extractedFields and without summary.
C19_ProcessDocumentNeverThrows ==
  \A i \in Invs :
    inv[i].via = "processDocument" =>
      /\ inv[i].pc # "threw"
      /\ inv[i].pc = "failed" =>
           /\ inv[i].pipeline.returned
           /\ ~inv[i].pipeline.success
           /\ inv[i].pipeline.sessionId = inv[i].sessionId
           /\ inv[i].pipeline.error # ""
           /\ ~inv[i].pipeline.hasExtractedFields
           /\ ~inv[i].pipeline.hasSummary

\* C20: every requested field that ends without candidates has an entry of
\* severity high in recommendedReview, and recommendedReview lists high
\* before medium before low.
C20_ReviewCoversEmptyFields ==
  \A i \in Returned :
    LET review == inv[i].result.recommendedReview
    IN /\ \A f \in Requested(inv[i]) :
            inv[i].result.extractedFields[f] = <<>> =>
              \E k \in 1..Len(review) :
                review[k].field = f /\ review[k].severity = "high"
       /\ \A k \in 1..(Len(review) - 1) :
            SeverityRank(review[k].severity)
              >= SeverityRank(review[k + 1].severity)

\* C21: the summary of a returned extraction reports as extractionRate the
\* number of fields with at least one candidate divided by the number of
\* fields requested: the size of the explicit subset when one was given, the
\* size of the rule registry otherwise.  (The two rates are compared by
\* cross-multiplication.)
FieldsRequested(r) ==
  IF r.specificFields = NoSubset
  THEN StatsTotalFields(r.registry)
  ELSE Len(r.specificFields)
C21_ExtractionRateOverRequestedFields ==
  \A i \in Returned :
    /\ inv[i].summary.totalFieldsRequested > 0
    /\ inv[i].summary.fieldsExtracted * FieldsRequested(inv[i])
         = Cardinality(FieldsOf(inv[i].result.extractedFields))
             * inv[i].summary.totalFieldsRequested

\* C22 (as stated): for every concurrency value c >= 1, processBatch never
\* has more than c processDocument calls in flight, returns exactly one
\* result per input path in input order (total = number of paths), and a
\* document's failure is that document's own success=false entry only.
BatchOrdered ==
  /\ Len(batch.results) = Len(batch.filePaths)
  /\ \A k \in 1..Len(batch.results) :
       /\ batch.results[k].filePath = batch.filePaths[k]
       /\ batch.results[k].success = (batch.results[k].outcome = "success")
  /\ batch.returned.success
  /\ batch.returned.total = Len(batch.filePaths)
  /\ batch.returned.failed =
       Cardinality({k \in 1..Len(batch.results) :
                      batch.results[k].outcome # "success"})
BatchContract ==
  /\ 2 * batch.maxInFlight <= batch.concurrency
  /\ batch.pc = "returned" => BatchOrdered
C22_WindowForEveryConcurrency ==
  (batch.pc # "idle" /\ batch.concurrency >= 2) => BatchContract

\* C22 (amended): the same for every whole concurrency value c >= 1.
C22_WindowForWholeConcurrency ==
  (batch.pc # "idle" /\ batch.concurrency >= 2 /\ batch.concurrency % 2 = 0)
    => BatchContract

\* A batch of three paths with concurrency 2 has returned: two documents
\* were in flight together, one of the three failed and one was rejected.
C22_Witness ==
  /\ batch.pc = "returned"
  /\ batch.concurrency = 4
  /\ Len(batch.filePaths) = 3
  /\ batch.maxInFlight = 2
  /\ batch.results[1].outcome = "failure"
  /\ batch.results[2].outcome = "success"
  /\ batch.results[3].outcome = "rejected"

\* C30: processBatch terminates for every finite path list and every
\* concurrency value, 0 and negative values included, provided each
\* processDocument call terminates.
C30_ProcessBatchTerminates ==
  (batch.pc = "awaiting") ~> (batch.pc = "returned")

\* C29: a review session that was removed (deleted or expired) stays absent
\* until a new upload stores a session under its id, whatever portal
\* submission or field update is under way.
C29_RemovedSessionStaysAbsent ==
  \A id \in ReviewIds :
    reviewInterface.removed[id] => ~reviewInterface.sessions[id].present

\* C23: every form field a portal submission fills (or would fill in a dry
\* run) receives candidates[0].value of that field, and a field with no
\* candidate is not filled.
C23_FormGetsBestMatch ==
  LET s == reviewInterface.submission
  IN s.pc = "done" =>
       \A fieldName \in PortalFieldNames :
         s.formData[fieldName].filled =>
           /\ Len(s.fields[fieldName].items) > 0
           /\ s.formData[fieldName].value
                = JsString(s.fields[fieldName].items[1].value)

\* The invocations whose backend call was answered, and those of them whose
\* answer held a decodable JSON object.
Answered == {i \in Invs : inv[i].tracked}
Decoded == {i \in Answered : inv[i].decoded}

\* C24: a value of a decoded answer that is not a string is discarded:
\* every candidate parseExtractionResponse returns has a string value, and
\* extract returns normally for every decodable answer.
C24_NonStringValuesDiscarded ==
  \A i \in Decoded :
    /\ \A f \in AllFieldNames :
         \A k \in 1..Len(inv[i].llmResults[f]) :
           inv[i].llmResults[f][k].value \notin NonStringValues
    /\ inv[i].pc = "done"

\* C25: an answer whose text is missing, holds no JSON object or cannot be
\* decoded gives the empty fallback result, and the extraction returns the
\* post-processed rules-only fields.
C25_UnreadableAnswerKeepsRules ==
  \A i \in Answered \ Decoded :
    /\ inv[i].llmResults = NoCandidates
    /\ inv[i].pc = "done"
    /\ inv[i].result.extractedFields = postProcess(inv[i].rulesResults)

\* An invocation whose rules found a company below the threshold got an
\* answer that could not be decoded and has returned.
C25_Witness ==
  \E i \in Answered \ Decoded :
    /\ inv[i].pc = "done"
    /\ "company" \in Range(inv[i].missingFields)
    /\ Len(inv[i].rulesResults["company"]) > 0
    /\ inv[i].result.extractionMethod = "rules+llm"

\* C27: post-processing passes a 'date' value that cannot be parsed as a
\* date through unchanged; only parseable values are rendered anew.
DateParses(v) == v \in {"January 15, 2024", "1/15/2024"}
C27_UnparseableDatePassesThrough ==
  \A i \in Returned :
    \A k \in 1..Len(inv[i].merged["date"]) :
      ~DateParses(inv[i].merged["date"][k].value) =>
        inv[i].result.extractedFields["date"][k].value
          = inv[i].merged["date"][k].value

\* The backend calls an invocation has made.
Posts(r) == Cardinality({k \in 1..Len(r.events) : r.events[k] = "post"})

\* C26: an extract invocation makes at most one backend call, with one
\* prompt for all gap fields; none when the fallback is disabled or there
\* is no gap; and exactly one, whose field list is the whole gap set, when
\* the fallback is enabled, there are gaps and the cost pre-check passes.
C26_OneBatchedBackendCall ==
  \A i \in Ruled :
    LET r == inv[i]
    IN /\ Posts(r) <= 1
       /\ Len(r.prompts) = Posts(r)
       /\ (~r.enableLLMFallback \/ r.missingFields = <<>>) => Posts(r) = 0
       /\ (r.enableLLMFallback /\ r.missingFields # <<>>
             /\ r.preCheck = "passed") =>
            (Posts(r) = 1 /\ r.prompts[1] = r.missingFields)

\* An invocation with three gap fields or more has made its one call and
\* returned, and its prompt named them all.
C26_Witness ==
  \E i \in Returned :
    /\ Posts(inv[i]) = 1
    /\ Len(inv[i].missingFields) >= 3
    /\ inv[i].prompts = <<inv[i].missingFields>>
    /\ inv[i].specificFields # NoSubset

\* The sum of the costs of the requests a ledger records.
RECURSIVE RequestsCost(_)
RequestsCost(requests) ==
  IF requests = <<>> THEN 0
  ELSE Head(requests).cost + RequestsCost(Tail(requests))

\* C28: after any sequence of trackRequest and reset calls, a session has a
\* cost record exactly if it has a request count, its request count (kept
\* and reported) is the number of its recorded requests, and its totalCost
\* is the sum of their costs.
C28_LedgerConsistent ==
  \A s \in Sessions :
    /\ costs[s].present <=> requestCounts[s] > 0
    /\ requestCounts[s] = Len(costs[s].requests)
    /\ sessionStats(costs, s).requestCount = Len(costs[s].requests)
    /\ sessionStats(costs, s).totalCost = RequestsCost(costs[s].requests)

\* Two requests of one session were tracked with a reset of the session
\* between them: the ledger records the second, which has a cost.
C28_Witness ==
  \E s \in Sessions :
    /\ Cardinality({i \in Invs : inv[i].tracked /\ inv[i].sessionId = s}) = 2
    /\ Len(costs[s].requests) = 1
    /\ requestCounts[s] = 1
    /\ costs[s].totalCost > 0

====
